---------------------------- MODULE Spec2Model ----------------------------
(***************************************************************************)
(* A model of create_bug_tickets.py: one run of the command-line driver    *)
(* against a tracker and a CSV file.                                       *)
(*                                                                         *)
(* Text that the program concatenates, strips or tests for emptiness is a  *)
(* sequence of characters (<<>> is the empty string).  Text that is only   *)
(* compared for equality (column names, priorities, issue-type names,      *)
(* keys) is a string.  Python's None is NoneVal for text and NoSprint for  *)
(* the sprint id.  A data row is a row with a cell for every column.       *)
(***************************************************************************)
EXTENDS Integers, Sequences, FiniteSets, TLC

VARIABLES
    args,           \* the parsed command line (argparse namespace)
    tracker,        \* what the remote tracker holds when the run starts
    csv,            \* the content of the CSV file
    pc,             \* position of the driver
    jira_id,        \* IssueType member -> attached tracker id, or Unset
    warned,         \* remote issue-type names printed as unknown
    board_id,       \* args.board_id, as text
    sprint_id,      \* sprint_id of the driver
    matching_rows,  \* matching_rows of the driver
    idx,            \* position of the creation loop in matching_rows
    rows_read,      \* number of data rows taken from the reader
    http,           \* requests issued so far, in order
    prompts,        \* operator prompts answered so far, in order
    tickets,        \* tickets the tracker created in this run, in order
    err             \* the uncaught exception that ended the run, if any

vars == <<args, tracker, csv, pc, jira_id, warned, board_id, sprint_id,
          matching_rows, idx, rows_read, http, prompts, tickets, err>>

----------------------------------------------------------------------------
(* Bounds of the model *)

MaxIssueTypes == 2
MaxBoards == 2
MaxSprints == 1
MaxCopies == 2
MaxRows == 2

----------------------------------------------------------------------------
(* Program constants *)

PROJECT_KEY == "DW"

NoneVal == "None"
NoSprint == 0
Unset == "<no jira_id>"

IssueType ==
    {"Initiative", "Epic", "Story", "Task", "Bug", "Sub-task", "Eng Design",
     "Release", "Feature Flag", "Design"}

BUG == "Bug"

expected_cols ==
    <<"Priority", "Description of issue", "Additional notes", "Platform/URL",
      "Title">>

----------------------------------------------------------------------------
(* Helpers *)

Range(s) == {s[i] : i \in 1..Len(s)}

Last(s) == s[Len(s)]

\* Python truthiness of an optional text value
Truthy(x) == x # NoneVal /\ x # ""

NoErr == [exc |-> "", msg |-> <<>>, missing |-> {}]

Exc(e, m) == [exc |-> e, msg |-> m, missing |-> {}]

Get(endpoint, param) ==
    [method |-> "GET", endpoint |-> endpoint, param |-> param, row |-> 0]

Post(endpoint, row) ==
    [method |-> "POST", endpoint |-> endpoint, param |-> "", row |-> row]

\* str.strip(): leading and trailing whitespace removed
Whitespace == {" ", "\t"}

RECURSIVE LStrip(_)
LStrip(s) ==
    IF s # <<>> /\ Head(s) \in Whitespace THEN LStrip(Tail(s)) ELSE s

RECURSIVE RStrip(_)
RStrip(s) ==
    IF s # <<>> /\ Last(s) \in Whitespace
    THEN RStrip(SubSeq(s, 1, Len(s) - 1))
    ELSE s

Strip(s) == RStrip(LStrip(s))

\* str.lower()
LowerChar(c) ==
    CASE c = "Y" -> "y"
      [] c = "N" -> "n"
      [] c = "E" -> "e"
      [] c = "S" -> "s"
      [] OTHER -> c

Lower(s) == [i \in 1..Len(s) |-> LowerChar(s[i])]

\* ", ".join(names), as a sequence of pieces
RECURSIVE Join(_)
Join(names) ==
    IF names = <<>> THEN <<>>
    ELSE IF Len(names) = 1 THEN names
    ELSE <<Head(names), ", ">> \o Join(Tail(names))


----------------------------------------------------------------------------
(* Functions of the program *)

\* get_create_metadata(project_key): the first project with that key
RECURSIVE FindProject(_, _)
FindProject(projects, key) ==
    IF projects = <<>> THEN <<>>
    ELSE IF Head(projects).key = key THEN <<Head(projects)>>
    ELSE FindProject(Tail(projects), key)

\* AttachIds with the try around the whole loop: the first unknown name
\* ends the loop
RECURSIVE AttachIdsUntilUnknown(_, _)
AttachIdsUntilUnknown(ids, issuetypes) ==
    IF issuetypes = <<>> \/ Head(issuetypes).name \notin IssueType THEN ids
    ELSE AttachIdsUntilUnknown(
             [ids EXCEPT ![Head(issuetypes).name] = Head(issuetypes).id],
             Tail(issuetypes))

\* The loop of get_issue_types: a known name gets the entry's id attached,
\* an unknown name raises inside the try and is printed.
RECURSIVE AttachIds(_, _)
AttachIds(ids, issuetypes) ==
    IF issuetypes = <<>> THEN ids
    ELSE LET t == Head(issuetypes) IN
         AttachIds(IF t.name \in IssueType
                   THEN [ids EXCEPT ![t.name] = t.id]
                   ELSE ids,
                   Tail(issuetypes))

RECURSIVE UnknownNames(_)
UnknownNames(issuetypes) ==
    IF issuetypes = <<>> THEN <<>>
    ELSE (IF Head(issuetypes).name \in IssueType
          THEN <<>>
          ELSE <<Head(issuetypes).name>>) \o UnknownNames(Tail(issuetypes))

\* get_board_id: the outcome for the boards the tracker returned
BoardNames(boards) == [i \in 1..Len(boards) |-> boards[i].name]

BoardError(boards) ==
    IF Len(boards) = 0
    THEN Exc("ValueError",
             <<"Found ", ToString(Len(boards)), " boards: ">>
             \o Join(<<>>)
             \o <<". ", "Try setting the --board_id option directly">>)
    ELSE \* str(board["name"], board["id"]) raises for the first board
         Exc("TypeError", <<"str() argument 'encoding' must be str, not int">>)

\* The header checks of the driver: the error raised, or NoErr
\* NonEmptyCols that keeps the columns without a name
AllCols(header) == header

NonEmptyCols(header) == SelectSeq(header, LAMBDA c : c # "")

HasRepeat(cols) == Cardinality(Range(cols)) # Len(cols)

MissingCols(cols) == Range(expected_cols) \ Range(cols)

\* HeaderError without the check for missing columns
HeaderErrorRepeatOnly(header) ==
    IF HasRepeat(NonEmptyCols(header))
    THEN Exc("ValueError", <<"One or more columns in csv is repeated">>)
    ELSE NoErr

HeaderError(header) ==
    LET cols == NonEmptyCols(header) IN
    IF HasRepeat(cols)
    THEN Exc("ValueError", <<"One or more columns in csv is repeated">>)
    ELSE IF MissingCols(cols) # {}
    THEN [exc |-> "ValueError",
          msg |-> <<"Expected columns are missing from csv: ">>,
          missing |-> MissingCols(cols)]
    ELSE NoErr

\* The row loop of the driver: rows whose Priority cell equals the option
\* FilterRows that stops at the first row of another priority
RECURSIVE FilterRowsPrefix(_, _)
FilterRowsPrefix(rows, priority) ==
    IF rows = <<>> \/ Head(rows)["Priority"] # priority THEN <<>>
    ELSE <<Head(rows)>> \o FilterRowsPrefix(Tail(rows), priority)

RECURSIVE FilterRows(_, _)
FilterRows(rows, priority) ==
    IF rows = <<>> THEN <<>>
    ELSE (IF Head(rows)["Priority"] = priority THEN <<Head(rows)>> ELSE <<>>)
         \o FilterRows(Tail(rows), priority)

\* Draft construction for one row
NotesHeading == <<"\n\n**Additional notes**:\n">>

UrlHeading == <<"\n\n**Platform/URL**: ">>

\* DraftTitle that falls back to the description after it was composed
DraftTitleComposed(row) ==
    IF row["Title"] # <<>>
    THEN row["Title"]
    ELSE row["Description of issue"]
         \o (IF row["Additional notes"] # <<>>
             THEN NotesHeading \o row["Additional notes"]
             ELSE <<>>)
         \o (IF row["Platform/URL"] # <<>>
             THEN UrlHeading \o row["Platform/URL"]
             ELSE <<>>)

DraftTitle(row) ==
    IF row["Title"] # <<>> THEN row["Title"] ELSE row["Description of issue"]

DraftDescription(row) ==
    LET d0 == row["Description of issue"]
        d1 == IF row["Additional notes"] # <<>>
              THEN d0 \o NotesHeading \o row["Additional notes"]
              ELSE d0
    IN  IF row["Platform/URL"] # <<>>
        THEN d1 \o UrlHeading \o row["Platform/URL"]
        ELSE d1

\* create_issue: the "fields" payload that is posted
Opt(cond, key, val) == IF cond THEN key :> val ELSE <<>>

IssueFields(project, type, summary, priority, description, parent, epic, sprint) ==
    [project |-> project, issuetype |-> type, summary |-> summary]
    @@ Opt(Truthy(priority), "priority", priority)
    @@ Opt(description # <<>>, "description", description)
    @@ Opt(Truthy(parent), "customfield_10009", parent)
    @@ Opt(Truthy(epic), "customfield_10008", epic)
    @@ Opt(sprint # NoSprint, "customfield_10010", sprint)

Kwargs(row) ==
    IssueFields(PROJECT_KEY, BUG, DraftTitle(row), NoneVal,
                DraftDescription(row), NoneVal, args.epic, sprint_id)

\* ShouldCreate that takes any answer starting with y as a yes
ShouldCreateLax(resp) ==
    LET r == Lower(Strip(resp)) IN r = <<>> \/ Head(r) = "y"

\* should_create.strip().lower() in ("y", "")
ShouldCreate(resp) == Lower(Strip(resp)) \in {<<"y">>, <<>>}


----------------------------------------------------------------------------
(* The inputs of a run: command line, tracker content, CSV content *)

\* sequences over S of length at most n without a repeated element
RECURSIVE DistinctSeqs(_, _)
DistinctSeqs(S, n) ==
    IF n = 0 THEN {<<>>}
    ELSE LET shorter == DistinctSeqs(S, n - 1) IN
         shorter \cup {Append(q, x) : <<q, x>> \in
                          {<<q, x>> \in shorter \X S : x \notin Range(q)}}

\* sequences over S of length at most n
RECURSIVE SeqsUpTo(_, _)
SeqsUpTo(S, n) ==
    IF n = 0 THEN {<<>>}
    ELSE LET shorter == SeqsUpTo(S, n - 1) IN
         shorter \cup {Append(q, x) : <<q, x>> \in shorter \X S}

RemoteNames == {"Bug", "Epic", "Zebra"}

RemoteIds == {"10001", "10002"}

IssueTypeLists ==
    {l \in SeqsUpTo([name : RemoteNames, id : RemoteIds], MaxIssueTypes) :
        \A i, j \in 1..Len(l) : i # j => l[i].name # l[j].name}

Boards == {[name |-> "Alpha", id |-> 1], [name |-> "Beta", id |-> 2],
           [name |-> "Gamma", id |-> 3]}

BoardLists == DistinctSeqs(Boards, MaxBoards)

BoardKeys == {"1", "2", "3"}

SprintLists == DistinctSeqs({101, 102}, MaxSprints)

Priorities == {"Stop ship", "Nice to have"}

\* a data row as csv.DictReader yields it: column name -> cell
Row(p, d, n, u, t) ==
    [c \in Range(expected_cols) |->
        CASE c = "Priority" -> p
          [] c = "Description of issue" -> d
          [] c = "Additional notes" -> n
          [] c = "Platform/URL" -> u
          [] c = "Title" -> t]

RowSet ==
    {Row(p, <<"D">>, n, u, t) :
        p \in Priorities, n \in {<<>>, <<"n">>}, u \in {<<>>, <<"u">>},
        t \in {<<>>, <<"t">>}}

RowLists == SeqsUpTo(RowSet, MaxRows)

ColNames == expected_cols \o <<"Extra", "">>

\* the header with count[i] copies of ColNames[i], in that order
RECURSIVE HeaderOf(_, _)
HeaderOf(count, i) ==
    IF i > Len(ColNames) THEN <<>>
    ELSE [k \in 1..count[i] |-> ColNames[i]] \o HeaderOf(count, i + 1)

Headers ==
    {HeaderOf(count, 1) : count \in [1..Len(ColNames) -> 0..MaxCopies]}

Responses ==
    {<<>>, <<"y">>, <<" ", "Y", " ">>, <<"n">>, <<"y", "e", "s">>}

DefaultProjects ==
    <<[key |-> PROJECT_KEY,
       issuetypes |-> <<[name |-> "Bug", id |-> "10001"]>>]>>

DefaultTracker ==
    [projects |-> DefaultProjects,
     boards |-> <<[name |-> "Alpha", id |-> 1]>>,
     sprints |-> [b \in BoardKeys |-> <<101>>]]

DefaultCsv ==
    [header |-> expected_cols,
     rows |-> <<Row("Stop ship", <<"D">>, <<"n">>, <<"u">>, <<>>),
                Row("Nice to have", <<"D">>, <<>>, <<>>, <<"t">>)>>]

ArgSets(lf, ats, bid, ep, pr) ==
    [list_fields : lf, add_to_sprint : ats, board_id : bid, epic : ep,
     priority : pr]

\* runs that vary the issue types the tracker reports
IssueTypeRuns ==
    [args : ArgSets(BOOLEAN, BOOLEAN, {NoneVal}, {NoneVal}, {"Stop ship"}),
     tracker :
        {[DefaultTracker EXCEPT !.projects = ps] :
            ps \in {<<[key |-> PROJECT_KEY, issuetypes |-> l]>> :
                        l \in IssueTypeLists}
                   \cup {<<[key |-> "OTHER", issuetypes |-> <<>>]>>,
                         <<[key |-> "OTHER", issuetypes |-> <<>>]>>
                             \o DefaultProjects}},
     csv : {DefaultCsv}]

\* runs that vary the boards, the sprints and the sprint options
BoardRuns ==
    [args : ArgSets(BOOLEAN, {TRUE}, {NoneVal, "", "2"}, {NoneVal},
                    {"Stop ship"}),
     tracker :
        {[DefaultTracker EXCEPT !.boards = bs, !.sprints = sp] :
            bs \in BoardLists, sp \in [BoardKeys -> SprintLists]},
     csv : {DefaultCsv}]

\* runs that vary the header of the file
HeaderRuns ==
    [args : ArgSets({FALSE}, BOOLEAN, {NoneVal}, {NoneVal}, {"Stop ship"}),
     tracker : {DefaultTracker},
     csv : [header : Headers, rows : {DefaultCsv.rows}]]

\* runs that vary the data rows and the requested priority
RowRuns ==
    [args : ArgSets({FALSE}, {FALSE}, {NoneVal}, {NoneVal}, Priorities),
     tracker : {DefaultTracker},
     csv : [header : {expected_cols}, rows : RowLists]]

\* the end-to-end run: three rows, the first and the third of the priority
EndToEndRows ==
    <<Row("Stop ship", <<"D">>, <<"n">>, <<"u">>, <<"t">>),
      Row("Nice to have", <<"D">>, <<>>, <<>>, <<"t">>),
      Row("Stop ship", <<"D">>, <<>>, <<>>, <<>>)>>

\* a batch of three rows of the priority
BatchRows ==
    <<Row("Stop ship", <<"D">>, <<>>, <<>>, <<"t">>),
      Row("Stop ship", <<"D">>, <<"n">>, <<>>, <<>>),
      Row("Stop ship", <<"D">>, <<>>, <<"u">>, <<"t">>)>>

EndToEndRuns ==
    [args : ArgSets({FALSE}, BOOLEAN, {NoneVal}, {NoneVal, "DW-7"},
                    {"Stop ship"}),
     tracker : {DefaultTracker},
     csv : [header : {expected_cols}, rows : {EndToEndRows, BatchRows}]]

Runs ==
    IssueTypeRuns \cup BoardRuns \cup HeaderRuns \cup RowRuns
    \cup EndToEndRuns

----------------------------------------------------------------------------
(* The driver *)

Init ==
    /\ \E r \in Runs :
          /\ args = r.args
          /\ tracker = r.tracker
          /\ csv = r.csv
    /\ pc = "start"
    /\ jira_id = [t \in IssueType |-> Unset]
    /\ warned = <<>>
    /\ board_id = args.board_id
    /\ sprint_id = NoSprint
    /\ matching_rows = <<>>
    /\ idx = 0
    /\ rows_read = 0
    /\ http = <<>>
    /\ prompts = <<>>
    /\ tickets = <<>>
    /\ err = NoErr

\* an uncaught exception ends the run
Raise(e) ==
    /\ pc' = "error"
    /\ err' = e

HTTPError == Exc("HTTPError", <<"raise_for_status">>)

\* get_issue_types(project_key), first statement of the driver
GetIssueTypes ==
    /\ pc = "start"
    /\ http' = Append(http, Get("createmeta", ""))
    /\ \E ok \in BOOLEAN :
          LET found == FindProject(tracker.projects, PROJECT_KEY) IN
          IF ~ok
          THEN Raise(HTTPError) /\ UNCHANGED <<jira_id, warned>>
          ELSE IF found = <<>>
          THEN /\ Raise(Exc("ValueError", <<PROJECT_KEY, " not found">>))
               /\ UNCHANGED <<jira_id, warned>>
          ELSE /\ jira_id' = AttachIds(jira_id, found[1].issuetypes)
               /\ warned' = UnknownNames(found[1].issuetypes)
               /\ pc' = "main"
               /\ err' = err
    /\ UNCHANGED <<args, tracker, csv, board_id, sprint_id, matching_rows,
                   idx, rows_read, prompts, tickets>>

\* ListFields without the exit(): the run goes on after the listing
ListFieldsNoExit ==
    /\ pc = "main"
    /\ args.list_fields
    /\ IF jira_id[BUG] = Unset
       THEN /\ Raise(Exc("AttributeError", <<"jira_id">>))
            /\ http' = http
       ELSE /\ http' = Append(http, Get("fieldmeta", jira_id[BUG]))
            /\ \E ok \in BOOLEAN :
                  IF ok THEN pc' = "csv" /\ err' = err ELSE Raise(HTTPError)
    /\ UNCHANGED <<args, tracker, csv, jira_id, warned, board_id, sprint_id,
                   matching_rows, idx, rows_read, prompts, tickets>>

\* --list_fields: get_create_field_metadata(project_key, IssueType.BUG); exit()
ListFields ==
    /\ pc = "main"
    /\ args.list_fields
    /\ IF jira_id[BUG] = Unset
       THEN /\ Raise(Exc("AttributeError", <<"jira_id">>))
            /\ http' = http
       ELSE /\ http' = Append(http, Get("fieldmeta", jira_id[BUG]))
            /\ \E ok \in BOOLEAN :
                  IF ok THEN pc' = "done" /\ err' = err ELSE Raise(HTTPError)
    /\ UNCHANGED <<args, tracker, csv, jira_id, warned, board_id, sprint_id,
                   matching_rows, idx, rows_read, prompts, tickets>>

\* not --add_to_sprint: sprint_id = None
NoSprintWanted ==
    /\ pc = "main"
    /\ ~args.list_fields
    /\ ~args.add_to_sprint
    /\ sprint_id' = NoSprint
    /\ pc' = "csv"
    /\ UNCHANGED <<args, tracker, csv, jira_id, warned, board_id,
                   matching_rows, idx, rows_read, http, prompts, tickets, err>>

\* --add_to_sprint without a board id: args.board_id = get_board_id(project_key)
GetBoardId ==
    /\ pc = "main"
    /\ ~args.list_fields
    /\ args.add_to_sprint
    /\ ~Truthy(board_id)
    /\ http' = Append(http, Get("board", PROJECT_KEY))
    /\ \E ok \in BOOLEAN :
          IF ~ok
          THEN Raise(HTTPError) /\ board_id' = board_id
          ELSE IF Len(tracker.boards) # 1
          THEN Raise(BoardError(tracker.boards)) /\ board_id' = board_id
          ELSE /\ board_id' = ToString(tracker.boards[1].id)
               /\ pc' = "sprint"
               /\ err' = err
    /\ UNCHANGED <<args, tracker, csv, jira_id, warned, sprint_id,
                   matching_rows, idx, rows_read, prompts, tickets>>

\* GetCurrentSprintId that returns None when no sprint is active
GetCurrentSprintIdOrNone ==
    /\ \/ pc = "sprint"
       \/ /\ pc = "main"
          /\ ~args.list_fields
          /\ args.add_to_sprint
          /\ Truthy(board_id)
    /\ http' = Append(http, Get("sprint", board_id))
    /\ \E ok \in BOOLEAN :
          IF ~ok \/ board_id \notin DOMAIN tracker.sprints
          THEN Raise(HTTPError) /\ sprint_id' = sprint_id
          ELSE LET values == tracker.sprints[board_id] IN
               /\ sprint_id' = IF Len(values) > 0 THEN values[1] ELSE NoSprint
               /\ pc' = "csv"
               /\ err' = err
    /\ UNCHANGED <<args, tracker, csv, jira_id, warned, board_id,
                   matching_rows, idx, rows_read, prompts, tickets>>

\* sprint_id = get_current_sprint_id(str(args.board_id))
GetCurrentSprintId ==
    /\ \/ pc = "sprint"
       \/ /\ pc = "main"
          /\ ~args.list_fields
          /\ args.add_to_sprint
          /\ Truthy(board_id)
    /\ http' = Append(http, Get("sprint", board_id))
    /\ \E ok \in BOOLEAN :
          IF ~ok \/ board_id \notin DOMAIN tracker.sprints
          THEN Raise(HTTPError) /\ sprint_id' = sprint_id
          ELSE LET values == tracker.sprints[board_id] IN
               IF Len(values) > 0
               THEN /\ sprint_id' = values[1]
                    /\ pc' = "csv"
                    /\ err' = err
               ELSE /\ Raise(Exc("ValueError",
                                 <<"No active sprint found for ", PROJECT_KEY>>))
                    /\ sprint_id' = sprint_id
    /\ UNCHANGED <<args, tracker, csv, jira_id, warned, board_id,
                   matching_rows, idx, rows_read, prompts, tickets>>

\* open the file, read the header with csv.reader and validate the columns
ValidateHeader ==
    /\ pc = "csv"
    /\ IF HeaderError(csv.header).exc # ""
       THEN Raise(HeaderError(csv.header))
       ELSE pc' = "rows" /\ err' = err
    /\ UNCHANGED <<args, tracker, csv, jira_id, warned, board_id, sprint_id,
                   matching_rows, idx, rows_read, http, prompts, tickets>>

\* f.seek(0); for row in csv.DictReader(f): keep the rows of the priority
ReadRows ==
    /\ pc = "rows"
    /\ matching_rows' = FilterRows(csv.rows, args.priority)
    /\ rows_read' = Len(csv.rows)
    /\ idx' = 1
    /\ pc' = "loop"
    /\ UNCHANGED <<args, tracker, csv, jira_id, warned, board_id, sprint_id,
                   http, prompts, tickets, err>>

\* ConfirmRow that catches the failure of the request and goes on
ConfirmRowCatch ==
    /\ pc = "loop"
    /\ idx <= Len(matching_rows)
    /\ \E should_create \in Responses :
          /\ prompts' = Append(prompts, [row |-> idx, resp |-> should_create])
          /\ IF ShouldCreate(should_create)
             THEN /\ http' = Append(http, Post("issue", idx))
                  /\ \E ok \in BOOLEAN :
                        /\ tickets' = IF ok
                                      THEN Append(tickets,
                                                  Kwargs(matching_rows[idx]))
                                      ELSE tickets
                        /\ idx' = idx + 1
                        /\ UNCHANGED <<pc, err>>
             ELSE /\ idx' = idx + 1
                  /\ UNCHANGED <<http, tickets, pc, err>>
    /\ UNCHANGED <<args, tracker, csv, jira_id, warned, board_id, sprint_id,
                   matching_rows, rows_read>>

\* one iteration of "for row in matching_rows": prompt, then create or skip
ConfirmRow ==
    /\ pc = "loop"
    /\ idx <= Len(matching_rows)
    /\ \E should_create \in Responses :
          /\ prompts' = Append(prompts, [row |-> idx, resp |-> should_create])
          /\ IF ShouldCreate(should_create)
             THEN /\ http' = Append(http, Post("issue", idx))
                  /\ \E ok \in BOOLEAN :
                        IF ok
                        THEN /\ tickets' = Append(tickets,
                                                  Kwargs(matching_rows[idx]))
                             /\ idx' = idx + 1
                             /\ UNCHANGED <<pc, err>>
                        ELSE /\ Raise(HTTPError)
                             /\ UNCHANGED <<tickets, idx>>
             ELSE /\ idx' = idx + 1
                  /\ UNCHANGED <<http, tickets, pc, err>>
    /\ UNCHANGED <<args, tracker, csv, jira_id, warned, board_id, sprint_id,
                   matching_rows, rows_read>>

\* the loop is exhausted and the script ends
Finish ==
    /\ pc = "loop"
    /\ idx > Len(matching_rows)
    /\ pc' = "done"
    /\ UNCHANGED <<args, tracker, csv, jira_id, warned, board_id, sprint_id,
                   matching_rows, idx, rows_read, http, prompts, tickets, err>>

Next ==
    \/ GetIssueTypes
    \/ ListFields
    \/ NoSprintWanted
    \/ GetBoardId
    \/ GetCurrentSprintId
    \/ ValidateHeader
    \/ ReadRows
    \/ ConfirmRow
    \/ Finish

Spec == Init /\ [][Next]_vars


----------------------------------------------------------------------------
(* What the run has done so far, read from the state *)

IsPost(e) == e.method = "POST"

Posts == SelectSeq(http, IsPost)

Endpoints == [i \in 1..Len(http) |-> http[i].endpoint]

RepeatedMsg == "One or more columns in csv is repeated"

MissingMsg == "Expected columns are missing from csv: "

\* the run ended with one of the two errors of the header validation
ValidationRaised ==
    /\ pc = "error"
    /\ err.exc = "ValueError"
    /\ err.msg[1] \in {RepeatedMsg, MissingMsg}

\* the header validation has let the run through
ValidationPassed ==
    \/ pc \in {"rows", "loop"}
    \/ pc = "done" /\ ~args.list_fields
    \/ pc = "error" /\ Posts # <<>>

Required == Range(expected_cols)

\* some column name stands in two places of the header
RepeatedName(h) == \E i, j \in 1..Len(h) : i # j /\ h[i] = h[j]

\* some column name other than the empty one stands in two places
RepeatedNonEmptyName(h) ==
    \E i, j \in 1..Len(h) : i # j /\ h[i] = h[j] /\ h[i] # ""

LacksRequired(h) == \E c \in Required : c \notin Range(h)

----------------------------------------------------------------------------
(* C1, as stated: when the header validation fails, no request has been
   issued before it. *)
C1_NoRequestBeforeValidation == ValidationRaised => http = <<>>

(* C1, amended: in a run whose header repeats a non-empty column name or
   lacks a required column, no ticket-creation request is ever issued, no
   row is read and the operator is never prompted; when the validation error
   is raised, only the read-only requests of the discovery (issue types
   first, then board and sprint if asked for) have been issued. *)
C1_ValidationBeforeCreation ==
    /\ (RepeatedNonEmptyName(csv.header) \/ LacksRequired(csv.header))
          => /\ Posts = <<>>
             /\ prompts = <<>>
             /\ tickets = <<>>
             /\ rows_read = 0
             /\ pc \notin {"rows", "loop"}
    /\ ValidationRaised
          => /\ http # <<>>
             /\ http[1].endpoint = "createmeta"
             /\ \A i \in 1..Len(http) : http[i].method = "GET"

C1_Witness ==
    /\ ValidationRaised
    /\ LacksRequired(csv.header)
    /\ Endpoints = <<"createmeta", "board", "sprint">>

----------------------------------------------------------------------------
(* C7, as stated: a header in which some column name occurs more than once
   is rejected before any data row is read; a header that lacks a required
   column is rejected with an error naming the missing columns; a header
   without repetition that has all required columns passes. *)
C7_HeaderValidationAsStated ==
    (ValidationRaised \/ ValidationPassed) =>
        /\ RepeatedName(csv.header) => ValidationRaised /\ rows_read = 0
        /\ LacksRequired(csv.header)
              => /\ ValidationRaised
                 /\ err.msg[1] = MissingMsg
                 /\ err.missing = Required \ Range(csv.header)
        /\ (~RepeatedName(csv.header) /\ ~LacksRequired(csv.header))
              => ValidationPassed

(* C7, amended: a header in which a non-empty column name occurs more than
   once is rejected with the repetition error before any data row is read;
   otherwise a header that lacks a required column is rejected, before any
   data row is read, with an error naming exactly the missing columns;
   otherwise the header passes, whatever extra or unnamed columns it has. *)
C7_HeaderValidation ==
    (ValidationRaised \/ ValidationPassed) =>
        IF RepeatedNonEmptyName(csv.header)
        THEN /\ ValidationRaised
             /\ err.msg[1] = RepeatedMsg
             /\ rows_read = 0
        ELSE IF LacksRequired(csv.header)
        THEN /\ ValidationRaised
             /\ err.msg[1] = MissingMsg
             /\ err.missing = Required \ Range(csv.header)
             /\ rows_read = 0
        ELSE ValidationPassed

C7_Witness ==
    /\ ValidationRaised
    /\ err.missing = {"Title", "Platform/URL"}
    /\ "Extra" \in Range(csv.header)
    /\ RepeatedName(csv.header)

----------------------------------------------------------------------------
(* C8: once the rows are read, matching_rows is exactly the subsequence of
   the file's data rows whose Priority cell equals the requested priority,
   in file order; every data row was read. *)
HasPriority(row) == row["Priority"] = args.priority

C8_PriorityFilter ==
    IF idx >= 1
    THEN /\ matching_rows = SelectSeq(csv.rows, HasPriority)
         /\ rows_read = Len(csv.rows)
    ELSE matching_rows = <<>> /\ rows_read = 0

C8_Witness ==
    /\ idx >= 1
    /\ csv.rows = EndToEndRows
    /\ matching_rows = <<EndToEndRows[1], EndToEndRows[3]>>


----------------------------------------------------------------------------
(* C9: every ticket created carries, as description, the row's base
   description followed by an "Additional notes" section exactly when the
   notes cell is non-empty, followed by a "Platform/URL" section exactly
   when the URL cell is non-empty; and, as summary, the row's title, or the
   base description when the title is empty. *)
NotesSection(row) ==
    IF row["Additional notes"] = <<>> THEN <<>>
    ELSE NotesHeading \o row["Additional notes"]

UrlSection(row) ==
    IF row["Platform/URL"] = <<>> THEN <<>>
    ELSE UrlHeading \o row["Platform/URL"]

\* the row of matching_rows that the k-th creation request was made for
RowOfPost(k) == matching_rows[Posts[k].row]

C9_DescriptionComposition ==
    \A k \in 1..Len(tickets) :
        LET row == RowOfPost(k)
            base == row["Description of issue"]
        IN  /\ tickets[k].description
                  = base \o NotesSection(row) \o UrlSection(row)
            /\ (row["Additional notes"] = <<>> /\ row["Platform/URL"] = <<>>)
                  => tickets[k].description = base
            /\ tickets[k].summary
                  = IF row["Title"] = <<>> THEN base ELSE row["Title"]

C9_Witness ==
    /\ Len(tickets) = 2
    /\ tickets[1].description = <<"D">> \o NotesHeading \o <<"n">>
    /\ tickets[1].summary = <<"D">>
    /\ tickets[2].description = <<"D">> \o UrlHeading \o <<"u">>
    /\ tickets[2].summary = <<"t">>

----------------------------------------------------------------------------
(* C2: the matching rows are prompted for one by one in their order, each
   once; an empty answer or the answer y (in either case, with or without
   surrounding blanks) makes exactly one creation request for that row, any
   other answer makes none and the run goes on to the next row; when no
   request has failed, the tickets created are those of the confirmed rows,
   one each. *)
Confirmations == {<<>>, <<"y">>, <<" ", "Y", " ">>}

Confirmed == {i \in 1..Len(prompts) : prompts[i].resp \in Confirmations}

PostsFor(i) == {k \in 1..Len(Posts) : Posts[k].row = i}

----------------------------------------------------------------------------
(* C3: in a run with --list_fields nothing but the issue-type discovery and
   the fetch of the Bug field metadata is ever requested, the CSV is never
   opened, no board or sprint is resolved, the operator is never prompted
   and no ticket is created, whatever the other options; a run that ends
   normally has made exactly those two requests. *)
C3_ListFieldsOnly ==
    args.list_fields =>
        /\ \A i \in 1..Len(http) :
              /\ http[i].method = "GET"
              /\ http[i].endpoint \in {"createmeta", "fieldmeta"}
        /\ pc \in {"start", "main", "done", "error"}
        /\ ~ValidationRaised
        /\ rows_read = 0 /\ matching_rows = <<>>
        /\ board_id = args.board_id /\ sprint_id = NoSprint
        /\ prompts = <<>> /\ tickets = <<>>
        /\ pc = "done" => Endpoints = <<"createmeta", "fieldmeta">>

C3_Witness ==
    /\ args.list_fields
    /\ args.add_to_sprint
    /\ args.board_id = NoneVal
    /\ pc = "done"
    /\ Len(http) = 2

----------------------------------------------------------------------------
(* C4: when a creation request has failed the run has ended with that
   error: the failed request is the last request and the only one for its
   row, the failing row is the last row prompted for, every earlier request
   made its ticket and those tickets are still there, and no step follows. *)
C4_CreateFailureEndsRun ==
    Len(Posts) > Len(tickets) =>
        /\ pc = "error" /\ err = HTTPError
        /\ Len(Posts) = Len(tickets) + 1
        /\ IsPost(Last(http))
        /\ Cardinality(PostsFor(Last(http).row)) = 1
        /\ Len(prompts) = Last(http).row
        /\ \A k \in 1..Len(tickets) : tickets[k] = Kwargs(RowOfPost(k))
        /\ \A i \in 1..Len(http) : http[i].method \in {"GET", "POST"}
        /\ ~ENABLED Next

C4_Witness ==
    /\ Len(Posts) > Len(tickets)
    /\ Len(tickets) = 1
    /\ Len(matching_rows) = 3
    /\ Len(prompts) = 2

----------------------------------------------------------------------------
(* C5: when the board lookup was answered, a single board gives that
   board's id, and any other number of boards gives the ambiguity error, a
   ValueError whose message lists the names of the boards and advises to set
   --board_id. *)
BoardAnswered ==
    /\ http # <<>>
    /\ Last(http).endpoint = "board"
    /\ pc \in {"sprint", "error"}
    /\ err.exc # "HTTPError"

Advice == "Try setting the --board_id option directly"

C5_BoardResolution ==
    BoardAnswered =>
        IF Len(tracker.boards) = 1
        THEN pc = "sprint" /\ board_id = ToString(tracker.boards[1].id)
        ELSE /\ pc = "error"
             /\ err.exc = "ValueError"
             /\ Range(BoardNames(tracker.boards)) \subseteq Range(err.msg)
             /\ Advice \in Range(err.msg)

----------------------------------------------------------------------------
(* C6: with --add_to_sprint (and no --list_fields) the board is the one
   given with --board_id, and then no board lookup is made, or else the one
   board found; the sprint request is made for it before the CSV is read;
   when that board has no active sprint the run ends with the absence error
   when the request is answered and never creates a ticket; when it has one,
   its id is the sprint id of every ticket created. *)
SprintWanted == args.add_to_sprint /\ ~args.list_fields

BoardGiven == args.board_id \notin {NoneVal, ""}

BoardUsed ==
    IF BoardGiven THEN args.board_id ELSE ToString(tracker.boards[1].id)

PastSprint == pc \in {"csv", "rows", "loop", "done"} \/ ValidationRaised
                 \/ Posts # <<>>

AbsenceRaised ==
    /\ pc = "error"
    /\ err.exc = "ValueError"
    /\ err.msg[1] = "No active sprint found for "

C6_SprintResolution ==
    SprintWanted =>
        /\ BoardGiven => "board" \notin Range(Endpoints)
        /\ "sprint" \in Range(Endpoints) =>
              /\ BoardGiven \/ Len(tracker.boards) = 1
              /\ IF BoardGiven
                 THEN SubSeq(Endpoints, 1, 2) = <<"createmeta", "sprint">>
                 ELSE SubSeq(Endpoints, 1, 3)
                         = <<"createmeta", "board", "sprint">>
              /\ \A i \in 1..Len(http) :
                    http[i].endpoint = "sprint" => http[i].param = BoardUsed
              /\ tracker.sprints[BoardUsed] = <<>>
                    => /\ ~PastSprint /\ tickets = <<>> /\ rows_read = 0
                       /\ pc = "error"
                       /\ err.exc # "HTTPError" => AbsenceRaised
              /\ AbsenceRaised => tracker.sprints[BoardUsed] = <<>>
        /\ PastSprint =>
              /\ "sprint" \in Range(Endpoints)
              /\ tracker.sprints[BoardUsed] # <<>>
              /\ sprint_id = tracker.sprints[BoardUsed][1]
              /\ \A k \in 1..Len(tickets) :
                    tickets[k].customfield_10010 = sprint_id
        /\ rows_read > 0 => "sprint" \in Range(Endpoints)

C6_Witness ==
    /\ SprintWanted
    /\ ~BoardGiven
    /\ tracker.boards = <<[name |-> "Beta", id |-> 2]>>
    /\ tracker.sprints["2"] = <<102>>
    /\ tracker.sprints["1"] = <<>>
    /\ Len(tickets) = 1
    /\ tickets[1].customfield_10010 = 102

----------------------------------------------------------------------------
(* C10: the issue-type discovery is the first request of every run and is
   made once; before it returns no IssueType has an id; once it has returned
   every IssueType named in the project's metadata has that entry's id and
   every other has none, in every later state of the run; the unknown remote
   names are printed and do not end the discovery. *)
RemoteIssueTypes ==
    (CHOOSE p \in Range(tracker.projects) : p.key = PROJECT_KEY).issuetypes

DiscoveryFailed ==
    /\ pc = "error"
    /\ Len(http) = 1
    /\ \/ err.exc = "HTTPError"
       \/ err.exc = "ValueError" /\ err.msg = <<PROJECT_KEY, " not found">>

Discovered == pc # "start" /\ ~DiscoveryFailed

C10_IssueTypeRegistry ==
    /\ http # <<>> =>
          /\ http[1].endpoint = "createmeta"
          /\ \A i \in 2..Len(http) : http[i].endpoint # "createmeta"
    /\ ~Discovered => \A t \in IssueType : jira_id[t] = Unset
    /\ (DiscoveryFailed /\ err.exc = "ValueError")
          => \A p \in Range(tracker.projects) : p.key # PROJECT_KEY
    /\ Discovered =>
          /\ \A e \in Range(RemoteIssueTypes) :
                IF e.name \in IssueType
                THEN jira_id[e.name] = e.id /\ e.name \notin Range(warned)
                ELSE e.name \in Range(warned)
          /\ \A t \in IssueType :
                (\A e \in Range(RemoteIssueTypes) : e.name # t)
                   => jira_id[t] = Unset
          /\ \A i \in 1..Len(http) :
                http[i].endpoint = "fieldmeta" => http[i].param = jira_id[BUG]

C10_Witness ==
    /\ pc = "done"
    /\ RemoteIssueTypes = <<[name |-> "Zebra", id |-> "10001"],
                            [name |-> "Bug", id |-> "10002"]>>
    /\ warned = <<"Zebra">>
    /\ jira_id[BUG] = "10002"
    /\ Endpoints = <<"createmeta", "fieldmeta">>

=============================================================================
